---- MODULE Spec2Model ----
(***************************************************************************)
(* SLA monitoring dashboard (src/js/app.js, src/config.js).                *)
(*                                                                         *)
(* The model follows the JavaScript of SLAMonitoringApp: the record        *)
(* pipeline (parseDate, processData, applyFilters, sortTable,              *)
(* updateStatistics) and the asynchronous loadData, whose two awaits are   *)
(* the only places where other handlers can run.                           *)
(*                                                                         *)
(* JavaScript values are records [t, n, s]: t is the type tag, n the       *)
(* numeric payload, s the characters of a string.  Strings are sequences   *)
(* of one-character strings.  Time values are counted in hours (every      *)
(* date the program builds is a midnight, local or UTC).  The column sla   *)
(* is counted in hundredths of a percent (it is rounded to two decimals).  *)
(***************************************************************************)
EXTENDS Integers, Sequences, FiniteSets, TLC

(***************************************************************************)
(* Characters and strings                                                  *)
(***************************************************************************)
Digits == {"0", "1", "2", "3", "4", "5", "6", "7", "8", "9"}

DigitVal(c) ==
    CASE c = "0" -> 0 [] c = "1" -> 1 [] c = "2" -> 2 [] c = "3" -> 3
      [] c = "4" -> 4 [] c = "5" -> 5 [] c = "6" -> 6 [] c = "7" -> 7
      [] c = "8" -> 8 [] c = "9" -> 9

\* UTF-16 code unit of the characters the inputs are written with
CharCode(c) ==
    CASE c \in Digits -> 48 + DigitVal(c)
      [] c = "-" -> 45
      [] c = "/" -> 47
      [] c = "A" -> 65 [] c = "B" -> 66 [] c = "C" -> 67 [] c = "Z" -> 90
      [] c = "a" -> 97 [] c = "b" -> 98 [] c = "c" -> 99 [] c = "z" -> 122

\* String.prototype.toLowerCase, one character
LowerChar(c) ==
    CASE c = "A" -> "a" [] c = "B" -> "b" [] c = "C" -> "c" [] c = "Z" -> "z"
      [] OTHER -> c

ToLowerCase(s) == [i \in 1..Len(s) |-> LowerChar(s[i])]

\* String.prototype.includes
Includes(hay, needle) ==
    \E k \in 0..(Len(hay) - Len(needle)) :
        \A i \in 1..Len(needle) : hay[k + i] = needle[i]

\* String comparison a < b of JavaScript: by code units, a prefix is smaller
StrLess(a, b) ==
    \E k \in 1..(Len(b)) :
        /\ \A i \in 1..(k - 1) : i <= Len(a) /\ a[i] = b[i]
        /\ \/ k = Len(a) + 1
           \/ k <= Len(a) /\ CharCode(a[k]) < CharCode(b[k])

\* String.prototype.split('/'): the parts between the slashes
RECURSIVE SplitSlashFrom(_, _, _)
SplitSlashFrom(s, i, cur) ==
    IF i > Len(s) THEN <<cur>>
    ELSE IF s[i] = "/" THEN <<cur>> \o SplitSlashFrom(s, i + 1, <<>>)
    ELSE SplitSlashFrom(s, i + 1, Append(cur, s[i]))

SplitSlash(s) == SplitSlashFrom(s, 1, <<>>)

(***************************************************************************)
(* JavaScript values                                                       *)
(***************************************************************************)
Undefined == [t |-> "undefined", n |-> 0, s |-> <<>>]
Null == [t |-> "null", n |-> 0, s |-> <<>>]
NaN == [t |-> "nan", n |-> 0, s |-> <<>>]
Num(k) == [t |-> "number", n |-> k, s |-> <<>>]
Str(chars) == [t |-> "string", n |-> 0, s |-> chars]
\* a Date object with a valid time value (hours since the epoch)
DateVal(h) == [t |-> "date", n |-> h, s |-> <<>>]
\* a Date object whose time value is NaN
InvalidDate == [t |-> "invaliddate", n |-> 0, s |-> <<>>]
\* the result of an evaluation that threw a TypeError
TypeError == [t |-> "TypeError", n |-> 0, s |-> <<>>]

\* ToBoolean
Truthy(v) ==
    CASE v.t \in {"undefined", "null", "nan"} -> FALSE
      [] v.t = "number" -> v.n # 0
      [] v.t = "string" -> Len(v.s) > 0
      [] OTHER -> TRUE

\* the leading run of decimal digits of s from position i, as a number
RECURSIVE DigitRun(_, _, _)
DigitRun(s, i, acc) ==
    IF i <= Len(s) /\ s[i] \in Digits
    THEN DigitRun(s, i + 1, acc * 10 + DigitVal(s[i]))
    ELSE acc

\* parseInt / parseFloat of a string of digits, signs and other characters:
\* an optional sign, then the longest run of digits; NaN when there is none
ParseNumberPrefix(s) ==
    LET neg == Len(s) >= 1 /\ s[1] = "-"
        start == IF neg THEN 2 ELSE 1
    IN  IF start <= Len(s) /\ s[start] \in Digits
        THEN Num((IF neg THEN -1 ELSE 1) * DigitRun(s, start, 0))
        ELSE NaN

\* parseInt(x) for a string x
ParseInt(s) == ParseNumberPrefix(s)

\* parseFloat(v): v is converted to a string first
ParseFloat(v) ==
    CASE v.t = "number" -> v
      [] v.t = "string" -> ParseNumberPrefix(v.s)
      [] OTHER -> NaN

\* parseFloat(v) || 0
ParseFloatOrZero(v) ==
    LET p == ParseFloat(v) IN IF p.t = "number" THEN p.n ELSE 0

\* ToNumber of a string: the whole string must be a number ("" is 0)
StringToNumber(s) ==
    LET neg == Len(s) >= 1 /\ s[1] = "-"
        start == IF neg THEN 2 ELSE 1
    IN  IF Len(s) = 0 THEN Num(0)
        ELSE IF start <= Len(s) /\ \A i \in start..Len(s) : s[i] \in Digits
        THEN Num((IF neg THEN -1 ELSE 1) * DigitRun(s, start, 0))
        ELSE NaN

\* ToNumber of the values a comparison meets
ToNumber(v) ==
    CASE v.t = "number" -> v
      [] v.t = "string" -> StringToNumber(v.s)
      [] v.t = "null" -> Num(0)
      [] v.t = "date" -> Num(v.n)
      [] OTHER -> NaN

\* x < y for two numbers: false when either is NaN
NumLess(x, y) == x.t = "number" /\ y.t = "number" /\ x.n < y.n

\* the relational operator a < b
JsLess(a, b) ==
    IF a.t = "string" /\ b.t = "string" THEN StrLess(a.s, b.s)
    ELSE NumLess(ToNumber(a), ToNumber(b))


(***************************************************************************)
(* Dates                                                                   *)
(***************************************************************************)
\* days from 1 January 1970 to the civil date y-m-d (m in 1..12, d any integer:
\* a day outside the month rolls over, as MakeDay does)
DaysFromCivil(y, m, d) ==
    LET yy == IF m <= 2 THEN y - 1 ELSE y
        era == yy \div 400
        yoe == yy - era * 400
        mp == IF m > 2 THEN m - 3 ELSE m + 9
        doy == (153 * mp + 2) \div 5 + d - 1
        doe == yoe * 365 + yoe \div 4 - yoe \div 100 + doy
    IN  era * 146097 + doe - 719468

\* new Date(year, monthIndex, day) in the time zone `zone` hours east of UTC:
\* local midnight; a NaN argument gives an invalid date, a year in 0..99 means
\* 1900 + year, the month index and the day are not range checked
NewDateYMD(year, monthIndex, day, zone) ==
    IF year.t # "number" \/ monthIndex.t # "number" \/ day.t # "number"
    THEN InvalidDate
    ELSE LET fullYear == IF year.n >= 0 /\ year.n <= 99 THEN 1900 + year.n ELSE year.n
             ym == fullYear + (monthIndex.n \div 12)
             mn == monthIndex.n % 12
         IN  DateVal(DaysFromCivil(ym, mn + 1, day.n) * 24 - zone)

\* the date-only ISO form YYYY-MM-DD
IsIsoDate(s) ==
    /\ Len(s) = 10
    /\ s[5] = "-" /\ s[8] = "-"
    /\ \A i \in {1, 2, 3, 4, 6, 7, 9, 10} : s[i] \in Digits
    /\ DigitRun(s, 6, 0) \in 1..12
    /\ DigitRun(s, 9, 0) \in 1..31

\* new Date(string): the date-only ISO form is UTC midnight (the inputs keep
\* its day within the month); the other strings the inputs are drawn from
\* (letters, digits with other separators) are not dates in any engine
NewDateString(s) ==
    IF IsIsoDate(s)
    THEN DateVal(DaysFromCivil(DigitRun(s, 1, 0), DigitRun(s, 6, 0), DigitRun(s, 9, 0)) * 24)
    ELSE InvalidDate

\* parseInt(x) - 1
MinusOne(v) == IF v.t = "number" THEN Num(v.n - 1) ELSE NaN

\* isNaN(date.getTime()) ? null : date
NullIfInvalid(date) == IF date.t = "invaliddate" THEN Null ELSE date

\* SLAMonitoringApp.parseDate, in the time zone `zone`
parseDate(dateString, zone) ==
    IF ~Truthy(dateString) THEN Null
    ELSE IF dateString.t # "string" THEN TypeError
    ELSE LET parts == SplitSlash(dateString.s)
         IN  IF Len(parts) = 3
             THEN NewDateYMD(ParseInt(parts[3]), MinusOne(ParseInt(parts[2])),
                             ParseInt(parts[1]), zone)
             ELSE NullIfInvalid(NewDateString(dateString.s))

(***************************************************************************)
(* Records                                                                 *)
(***************************************************************************)
\* a record as it arrives: the derived fields are absent
RawRecord(nomorPO, itemCode, supplierName, contract, poDate, poValue, receivedDate, receivedValue) ==
    [nomorPO |-> nomorPO, itemCode |-> itemCode, supplierName |-> supplierName,
     contract |-> contract, poDate |-> poDate, poValue |-> poValue,
     receivedDate |-> receivedDate, receivedValue |-> receivedValue,
     sla |-> Undefined, avgDays |-> Undefined,
     poDateObj |-> Undefined, receivedDateObj |-> Undefined]

\* Number.prototype.toFixed(2) then parseFloat, of num / den * 100, in
\* hundredths (den > 0)
RatioHundredths(num, den) ==
    IF num >= 0 THEN (2 * num * 10000 + den) \div (2 * den)
    ELSE -((2 * (-num) * 10000 + den) \div (2 * den))

\* Math.ceil((receivedDate - poDate) / (1000 * 60 * 60 * 24))
CeilDays(receivedDate, poDate) ==
    IF receivedDate.t = "date" /\ poDate.t = "date"
    THEN Num(-((poDate.n - receivedDate.n) \div 24))
    ELSE NaN

\* whether the map callback of processData throws for this item
EnrichThrows(item, zone) ==
    \/ parseDate(item.poDate, zone).t = "TypeError"
    \/ parseDate(item.receivedDate, zone).t = "TypeError"

\* the fulfilment ratio processData computes
ComputeSla(item) ==
    LET poValue == ParseFloatOrZero(item.poValue)
        receivedValue == ParseFloatOrZero(item.receivedValue)
    IN  IF poValue > 0 THEN Num(RatioHundredths(receivedValue, poValue)) ELSE Num(0)

\* the elapsed days processData computes
ComputeAvgDays(poDate, receivedDate) ==
    IF Truthy(poDate) /\ Truthy(receivedDate)
    THEN CeilDays(receivedDate, poDate) ELSE Num(0)

\* the object the map callback of processData returns
EnrichedRecord(item, poDate, receivedDate) ==
    [item EXCEPT !.sla = ComputeSla(item),
                 !.avgDays = ComputeAvgDays(poDate, receivedDate),
                 !.poDateObj = poDate, !.receivedDateObj = receivedDate]

\* the map callback of SLAMonitoringApp.processData
Enrich(item, zone) ==
    EnrichedRecord(item, parseDate(item.poDate, zone), parseDate(item.receivedDate, zone))

(***************************************************************************)
(* Filtering, rendering, statistics                                        *)
(***************************************************************************)
FilterIds == {"poDateFrom", "poDateTo", "rcvDateFrom", "rcvDateTo",
              "supplierSearch", "contractSearch", "itemCodeSearch"}

\* a variant of OutsideBounds without the test that the date is present, to
\* show what the property of unparsed dates rules out
OutsideBoundsUnguarded(dateObj, from, to) ==
    \/ Len(from) > 0 /\ JsLess(dateObj, NewDateString(from))
    \/ Len(to) > 0 /\ JsLess(NewDateString(to), dateObj)

\* the two date checks of the filter callback on one date: whether the record
\* is rejected by the bound from or by the bound to
OutsideBounds(dateObj, from, to) ==
    \/ Len(from) > 0 /\ Truthy(dateObj) /\ JsLess(dateObj, NewDateString(from))
    \/ Len(to) > 0 /\ Truthy(dateObj) /\ JsLess(NewDateString(to), dateObj)

\* one text check of the filter callback: "pass", "fail", or "throw" when the
\* field has no toLowerCase method
TextCheck(field, search) ==
    IF Len(search) = 0 THEN "pass"
    ELSE IF field.t # "string" THEN "throw"
    ELSE IF Includes(ToLowerCase(field.s), search) THEN "pass" ELSE "fail"

\* the three text checks in the order the callback makes them
TextVerdict(supplier, contract, itemCode) ==
    IF supplier = "throw" THEN "throw"
    ELSE IF supplier = "fail" THEN "drop"
    ELSE IF contract = "throw" THEN "throw"
    ELSE IF contract = "fail" THEN "drop"
    ELSE IF itemCode = "throw" THEN "throw"
    ELSE IF itemCode = "fail" THEN "drop"
    ELSE "keep"

\* the callback of this.data.filter in applyFilters: "keep", "drop" or "throw"
FilterVerdict(item, in) ==
    IF OutsideBounds(item.poDateObj, in["poDateFrom"], in["poDateTo"]) THEN "drop"
    ELSE IF OutsideBounds(item.receivedDateObj, in["rcvDateFrom"], in["rcvDateTo"])
    THEN "drop"
    ELSE TextVerdict(TextCheck(item.supplierName, ToLowerCase(in["supplierSearch"])),
                     TextCheck(item.contract, ToLowerCase(in["contractSearch"])),
                     TextCheck(item.itemCode, ToLowerCase(in["itemCodeSearch"])))

\* the elements of seq whose verdict is "keep", in order
RECURSIVE Kept(_, _, _)
Kept(seq, verdicts, i) ==
    IF i > Len(seq) THEN <<>>
    ELSE IF verdicts[i] = "keep" THEN <<seq[i]>> \o Kept(seq, verdicts, i + 1)
    ELSE Kept(seq, verdicts, i + 1)

\* item[field] summed over the view, as reduce((sum, item) => sum + item[field], 0)
RECURSIVE SumField(_, _, _)
SumField(view, field, i) ==
    IF i > Len(view) THEN Num(0)
    ELSE IF view[i][field].t # "number" THEN NaN
    ELSE IF SumField(view, field, i + 1).t # "number" THEN NaN
    ELSE Num(view[i][field].n + SumField(view, field, i + 1).n)

\* (sum / count).toFixed(2), the sum counted in hundredths
MeanToFixed(sum, count) ==
    IF sum.t # "number" THEN NaN
    ELSE IF sum.n >= 0 THEN Num((2 * sum.n + count) \div (2 * count))
    ELSE Num(-((2 * (-sum.n) + count) \div (2 * count)))

\* Math.round(sum / count)
MeanRounded(sum, count) ==
    IF sum.t # "number" THEN NaN
    ELSE Num((2 * sum.n + count) \div (2 * count))

\* a variant of updateStatistics that counts rows for orders, to show what the
\* property of the statistics rules out
updateStatisticsCountingRows(view) ==
    [totalPO |-> Num(Len(view)),
     totalItems |-> Num(Len(view)),
     avgSLA |-> IF Len(view) > 0
                THEN MeanToFixed(SumField(view, "sla", 1), Len(view)) ELSE Num(0),
     avgDays |-> IF Len(view) > 0
                 THEN MeanRounded(SumField(view, "avgDays", 1), Len(view)) ELSE Num(0)]

\* SLAMonitoringApp.updateStatistics: the four texts it writes
updateStatistics(view) ==
    [totalPO |-> Num(Cardinality({view[i].nomorPO : i \in 1..Len(view)})),
     totalItems |-> Num(Len(view)),
     avgSLA |-> IF Len(view) > 0
                THEN MeanToFixed(SumField(view, "sla", 1), Len(view)) ELSE Num(0),
     avgDays |-> IF Len(view) > 0
                 THEN MeanRounded(SumField(view, "avgDays", 1), Len(view)) ELSE Num(0)]

\* SLAMonitoringApp.renderTable: the visibility it sets, and whether building
\* the rows throws (item.sla.toFixed of a record that was never enriched)
renderTable(view) ==
    IF Len(view) = 0
    THEN [threw |-> FALSE, table |-> "none", empty |-> "block"]
    ELSE [threw |-> \E i \in 1..Len(view) : view[i].sla.t = "undefined",
          table |-> "block", empty |-> "none"]

(***************************************************************************)
(* Sorting                                                                 *)
(***************************************************************************)
NumericColumns == {"qtyPO", "qtyReceived", "poValue", "receivedValue", "sla", "avgDays"}
DateColumns == {"poDate", "receivedDate"}

\* a[column + 'Obj'] || new Date(0)
DateKey(obj) == IF Truthy(obj) THEN obj ELSE DateVal(0)

\* the operands sortTable compares for an item
SortKey(item, column) ==
    IF column \in DateColumns
    THEN DateKey(IF column = "poDate" THEN item.poDateObj ELSE item.receivedDateObj)
    ELSE IF column \in NumericColumns
    THEN Num(ParseFloatOrZero(item[column]))
    ELSE item[column]

\* a variant of CompareKeys that ignores the direction, to show what the
\* property of the direction toggle rules out
CompareKeysAscending(aVal, bVal, direction) ==
    IF JsLess(aVal, bVal) THEN -1
    ELSE IF JsLess(bVal, aVal) THEN 1
    ELSE 0

\* the last three lines of the comparator of sortTable
CompareKeys(aVal, bVal, direction) ==
    IF JsLess(aVal, bVal) THEN (IF direction = "asc" THEN -1 ELSE 1)
    ELSE IF JsLess(bVal, aVal) THEN (IF direction = "asc" THEN 1 ELSE -1)
    ELSE 0

\* the comparator of sortTable
Compare(a, b, column, direction) ==
    CompareKeys(SortKey(a, column), SortKey(b, column), direction)

\* the comparator on every pair of elements of the view
CompareTable(view, column, direction) ==
    [i \in 1..Len(view) |->
        [j \in 1..Len(view) |-> Compare(view[i], view[j], column, direction)]]

IndexPermutations(n) ==
    {p \in [1..n -> 1..n] : \A i, j \in 1..n : i # j => p[i] # p[j]}

\* whether a comparator with the table of results cmp is a consistent
\* comparator (ECMAScript, Array.prototype.sort): the order and the ties are
\* transitive
ConsistentComparator(cmp) ==
    \A i, j, k \in DOMAIN cmp :
        /\ (cmp[i][j] < 0 /\ cmp[j][k] < 0) => cmp[i][k] < 0
        /\ (cmp[i][j] = 0 /\ cmp[j][k] = 0) => cmp[i][k] = 0

\* whether applying the permutation p gives the stable sorted order
StablySorted(p, cmp) ==
    \A i, j \in DOMAIN cmp :
        i < j => (cmp[p[i]][p[j]] < 0 \/ (cmp[p[i]][p[j]] = 0 /\ p[i] < p[j]))

\* Array.prototype.sort called with a comparator whose results are cmp, as the
\* permutations p it may apply (the result holds the old element p[i] at i):
\* the stable sorted order when the comparator is consistent, an
\* implementation-defined order (any permutation) when it is not
SortPermutations(cmp) ==
    IF ConsistentComparator(cmp)
    THEN {p \in IndexPermutations(Len(cmp)) : StablySorted(p, cmp)}
    ELSE IndexPermutations(Len(cmp))

\* this.filteredData.sort(...) of sortTable
SortOutcomes(view, column, direction) ==
    SortPermutations(CompareTable(view, column, direction))

(***************************************************************************)
(* The records of the responses                                            *)
(*                                                                         *)
(* A record object is named by its index in Catalogue; this.data and       *)
(* this.filteredData hold such references, as the program's arrays hold    *)
(* references to objects.  processData replaces every raw object by its    *)
(* enriched copy, so an array holds raw objects only or enriched objects   *)
(* only, which the flag `enriched` of the array says.                      *)
(***************************************************************************)
D_01_01_2024 == Str(<<"0", "1", "/", "0", "1", "/", "2", "0", "2", "4">>)
D_05_01_2024 == Str(<<"0", "5", "/", "0", "1", "/", "2", "0", "2", "4">>)
D_32_01_2024 == Str(<<"3", "2", "/", "0", "1", "/", "2", "0", "2", "4">>)
D_25_12_2024 == Str(<<"2", "5", "/", "1", "2", "/", "2", "0", "2", "4">>)
D_02_01_1960 == Str(<<"0", "2", "/", "0", "1", "/", "1", "9", "6", "0">>)
D_01_13_24 == Str(<<"0", "1", "/", "1", "3", "/", "2", "4">>)
D_Iso_2024_01_05 == Str(<<"2", "0", "2", "4", "-", "0", "1", "-", "0", "5">>)
D_Letters == Str(<<"a", "/", "b", "/", "c">>)
D_Word == Str(<<"a", "b", "c">>)
D_Empty == Str(<<>>)

\* the record of the end-to-end scenario: 80 of 100 received after 4 days
R_Acme == RawRecord(Str(<<"1">>), Str(<<"A", "1">>), Str(<<"A", "c">>), Str(<<"C">>),
                    D_01_01_2024, Str(<<"1", "0", "0">>), D_05_01_2024, Str(<<"8", "0">>))
\* ordered before 1970, nothing received, the values as numbers
R_Old == RawRecord(Str(<<"1">>), Str(<<"B", "2">>), Str(<<"B", "a">>), Str(<<"C">>),
                   D_02_01_1960, Num(200), D_Empty, Num(50))
\* no order date, the received date in ISO form, order value 0
R_NoDate == RawRecord(Str(<<"2">>), Str(<<"C", "3">>), Str(<<"Z", "z">>), Str(<<"B">>),
                      D_Empty, Str(<<"0">>), D_Iso_2024_01_05, Str(<<"5">>))
\* an order date of three parts that are not numbers
R_Letters == RawRecord(Str(<<"3">>), Str(<<"A", "1">>), Str(<<"C", "a">>), Str(<<"C">>),
                       D_Letters, Str(<<"3">>), D_05_01_2024, Str(<<"1">>))
\* an order date that is a number
R_NumDate == RawRecord(Str(<<"4">>), Str(<<"A", "1">>), Str(<<"A", "b">>), Str(<<"C">>),
                       Num(20240101), Num(10), D_05_01_2024, Num(10))
\* no supplierName
R_NoSupplier == RawRecord(Str(<<"5">>), Str(<<"B", "2">>), Undefined, Str(<<"C">>),
                          D_05_01_2024, Num(3), D_05_01_2024, Num(2))
\* every field missing
R_Blank == RawRecord(Undefined, Undefined, Undefined, Undefined,
                     Undefined, Undefined, Undefined, Undefined)
\* ordered late in 2024, everything received the same day
R_Late == RawRecord(Str(<<"2">>), Str(<<"C", "3">>), Str(<<"a", "b">>), Str(<<"B">>),
                    D_25_12_2024, Num(40), D_25_12_2024, Str(<<"4", "0">>))

NamedRecords == <<R_Acme, R_Old, R_NoDate, R_Letters, R_NumDate, R_NoSupplier,
                  R_Blank, R_Late>>
RecordNames == <<"Acme", "Old", "NoDate", "Letters", "NumDate", "NoSupplier",
                 "Blank", "Late">>

\* the reference of a named record object
Ref(name) == CHOOSE ref \in 1..Len(RecordNames) : RecordNames[ref] = name

\* the date and value fields enrichment is checked on
DateInputs == <<D_01_01_2024, D_05_01_2024, D_32_01_2024, D_02_01_1960, D_01_13_24,
                D_Iso_2024_01_05, D_Letters, D_Word, D_Empty, Undefined, Null,
                Num(20240101)>>
ValueInputs == <<Str(<<"1", "0", "0">>), Str(<<"8", "0">>), Num(200), Num(0),
                 Str(<<"-", "5">>), Str(<<"1", "2", "a">>), Undefined>>

\* the record whose date and value fields are the given entries of DateInputs
\* and ValueInputs
WideRecordOf(po, rcv, poValue, rcvValue) ==
    RawRecord(Str(<<"1">>), Str(<<"A", "1">>), Str(<<"A", "c">>), Str(<<"C">>),
              DateInputs[po], ValueInputs[poValue], DateInputs[rcv], ValueInputs[rcvValue])

\* the record with the k-th combination of date and value fields (k from 0)
WideRecord(k) ==
    WideRecordOf((k % Len(DateInputs)) + 1,
                 ((k \div Len(DateInputs)) % Len(DateInputs)) + 1,
                 ((k \div (Len(DateInputs) * Len(DateInputs))) % Len(ValueInputs)) + 1,
                 ((k \div (Len(DateInputs) * Len(DateInputs) * Len(ValueInputs)))
                     % Len(ValueInputs)) + 1)

NumWide == Len(DateInputs) * Len(DateInputs) * Len(ValueInputs) * Len(ValueInputs)
NamedRefs == 1..Len(NamedRecords)
WideRefs == (Len(NamedRecords) + 1)..(Len(NamedRecords) + NumWide)

\* the raw record object a reference names
Catalogue(ref) ==
    IF ref \in NamedRefs THEN NamedRecords[ref]
    ELSE WideRecord(ref - Len(NamedRecords) - 1)

\* hours east of UTC of the browser's time zone
TzOffsets == {0, 7}

\* the time zone of the application's runs
HomeTzOffsets == {7}

\* processData's callback on each named record object, per time zone
EnrichedNamed == [zone \in TzOffsets |-> [ref \in NamedRefs |-> Enrich(NamedRecords[ref], zone)]]

\* the enriched copy of the record object a reference names
Enriched(ref, zone) ==
    IF ref \in NamedRefs THEN EnrichedNamed[zone][ref] ELSE Enrich(Catalogue(ref), zone)

\* whether processData's callback throws on the record object
Throws(ref, zone) == EnrichThrows(Catalogue(ref), zone)

\* the record object behind a reference of an array
Object(ref, enriched, zone) ==
    IF enriched THEN Enriched(ref, zone) ELSE Catalogue(ref)

\* the record objects of an array of references
Objects(items, enriched, zone) ==
    [i \in 1..Len(items) |-> Object(items[i], enriched, zone)]

(***************************************************************************)
(* State                                                                   *)
(***************************************************************************)
VARIABLES
    tz,             \* the browser's time zone, hours east of UTC
    apiUrl,         \* ConfigManager.apiUrl: "" or "url"
    configModal,    \* whether #configModal carries the class active
    data,           \* this.data: [t, enriched, items]; t is "array" unless
                    \* a response of another shape was installed
    filteredData,   \* this.filteredData: [enriched, items]
    sortColumn,     \* this.sortColumn: "null" or a column name
    sortDirection,  \* this.sortDirection: "asc" or "desc"
    inputs,         \* the value of each filter input
    display,        \* style.display of the spinner, the error message, the
                    \* table container and the empty state
    errorText,      \* the kind of error #errorText reports ("" before any)
    stats,          \* the texts updateStatistics wrote
    requests,       \* the position of each loadData invocation, with the
                    \* body of its response once fetch has resolved
    before          \* history: the view as it was when the loadData call
                    \* that nothing has interleaved with since was made

vars == <<tz, apiUrl, configModal, data, filteredData, sortColumn, sortDirection,
          inputs, display, errorText, stats, requests, before>>

\* how many loadData invocations can be in flight at once
MaxPending == 2
Slots == 1..MaxPending

\* the record objects of this.filteredData
View == Objects(filteredData.items, filteredData.enriched, tz)

(***************************************************************************)
(* Response bodies                                                         *)
(***************************************************************************)
\* the data property of a decoded object (t = "undefined": there is none)
NoData == [t |-> "undefined", truthy |-> FALSE, items |-> <<>>]
DataArray(items) == [t |-> "array", truthy |-> TRUE, items |-> items]
DataNumber(truthy) == [t |-> "number", truthy |-> truthy, items |-> <<>>]

\* what response.json() decodes (t = "invalid": the body is not JSON)
JsonArray(items) == [t |-> "array", truthy |-> TRUE, items |-> items, d |-> NoData]
JsonObject(d) == [t |-> "object", truthy |-> TRUE, items |-> <<>>, d |-> d]
JsonNumber(truthy) == [t |-> "number", truthy |-> truthy, items |-> <<>>, d |-> NoData]
JsonString(truthy) == [t |-> "string", truthy |-> truthy, items |-> <<>>, d |-> NoData]
JsonNull == [t |-> "null", truthy |-> FALSE, items |-> <<>>, d |-> NoData]
InvalidJson == [t |-> "invalid", truthy |-> FALSE, items |-> <<>>, d |-> NoData]
NoBody == [t |-> "none", truthy |-> FALSE, items |-> <<>>, d |-> NoData]

EmptyArray == [t |-> "array", enriched |-> FALSE, items |-> <<>>]

\* result.data || result || []: the value assigned to this.data, or threw when
\* result is null
Ingest(result) ==
    IF result.t = "null" THEN [threw |-> TRUE, value |-> EmptyArray]
    ELSE IF result.d.truthy
    THEN [threw |-> FALSE,
          value |-> [t |-> result.d.t, enriched |-> FALSE, items |-> result.d.items]]
    ELSE IF result.truthy
    THEN [threw |-> FALSE,
          value |-> [t |-> result.t, enriched |-> FALSE, items |-> result.items]]
    ELSE [threw |-> FALSE, value |-> EmptyArray]

\* SLAMonitoringApp.processData on this.data = d: the new this.data, or threw
\* (this.data.map is not a function, or parseDate threw in the callback), in
\* which case this.data keeps d
processData(d, zone) ==
    IF d.t # "array" THEN [threw |-> TRUE, value |-> d]
    ELSE IF \E i \in 1..Len(d.items) : Throws(d.items[i], zone)
    THEN [threw |-> TRUE, value |-> d]
    ELSE [threw |-> FALSE, value |-> [d EXCEPT !.enriched = TRUE]]

\* the end of applyFilters, once this.filteredData holds the references kept,
\* whose objects are view, and renderTable has given r
Rendered(enriched, kept, view, r, vs) ==
    [threw |-> r.threw,
     filteredData |-> [enriched |-> enriched, items |-> kept],
     table |-> r.table, empty |-> r.empty,
     stats |-> IF r.threw THEN vs.stats ELSE updateStatistics(view)]

\* applyFilters once the callback has given its verdict on every element
Filtered(d, objs, verdicts, vs) ==
    IF \E i \in 1..Len(objs) : verdicts[i] = "throw"
    THEN [vs EXCEPT !.threw = TRUE]
    ELSE Rendered(d.enriched, Kept(d.items, verdicts, 1), Kept(objs, verdicts, 1),
                  renderTable(Kept(objs, verdicts, 1)), vs)

\* this.data.filter(...) over the record objects objs of this.data
FilterObjects(d, objs, in, vs) ==
    Filtered(d, objs, [i \in 1..Len(objs) |-> FilterVerdict(objs[i], in)], vs)

\* SLAMonitoringApp.applyFilters on this.data = d with the filter inputs in,
\* from the view state vs = [filteredData, table, empty, stats]: the view state
\* it leaves, and whether it threw (this.data.filter is not a function, a text
\* field without toLowerCase, or renderTable threw)
applyFilters(d, in, vs, zone) ==
    IF d.t # "array"
    THEN [vs EXCEPT !.threw = TRUE]
    ELSE FilterObjects(d, Objects(d.items, d.enriched, zone), in, vs)

(***************************************************************************)
(* Initial state: after new SLAMonitoringApp()                             *)
(***************************************************************************)
NoStats == [totalPO |-> Undefined, totalItems |-> Undefined,
            avgSLA |-> Undefined, avgDays |-> Undefined]

NoView == [enriched |-> FALSE, items |-> <<>>]

NoSnapshot == [slot |-> 0, data |-> EmptyArray, filteredData |-> NoView,
               sortColumn |-> "null", sortDirection |-> "asc",
               table |-> "none", empty |-> "none"]

Snapshot(s) == [slot |-> s, data |-> data, filteredData |-> filteredData,
                sortColumn |-> sortColumn, sortDirection |-> sortDirection,
                table |-> display.table, empty |-> display.empty]

Idle == [pos |-> "idle", body |-> NoBody]

\* the fields of the constructor, and the filter inputs of the page
InitFields ==
    /\ data = EmptyArray
    /\ filteredData = NoView
    /\ sortColumn = "null"
    /\ sortDirection = "asc"
    /\ inputs = [id \in FilterIds |-> <<>>]
    /\ errorText = ""
    /\ stats = NoStats
    /\ before = NoSnapshot

\* init() with a configured URL: loadData has been called
InitLoading ==
    /\ InitFields
    /\ apiUrl = "url"
    /\ configModal = FALSE
    /\ display = [spinner |-> "block", error |-> "none",
                  table |-> "none", empty |-> "none"]

\* init(): without a configured URL the modal is shown and no style.display
\* has been assigned yet (""); with one, loadData has been called
Init ==
    /\ tz \in HomeTzOffsets
    /\ \/ /\ InitFields
          /\ apiUrl = ""
          /\ configModal = TRUE
          /\ display = [spinner |-> "", error |-> "", table |-> "", empty |-> ""]
          /\ requests = [s \in Slots |-> Idle]
       \/ /\ InitLoading
          /\ requests = [s \in Slots |->
                           IF s = 1 THEN [pos |-> "awaitFetch", body |-> NoBody]
                           ELSE Idle]

(***************************************************************************)
(* loadData                                                                *)
(***************************************************************************)
InFlight(s) == requests[s].pos \in {"awaitFetch", "awaitJson"}

\* loadData up to its first await: the loading state
LoadDataCall(s) ==
    /\ ~InFlight(s)
    /\ \A o \in Slots : o < s => InFlight(o)
    /\ requests' = [requests EXCEPT ![s] = [pos |-> "awaitFetch", body |-> NoBody]]
    /\ display' = [spinner |-> "block", error |-> "none",
                   table |-> "none", empty |-> "none"]
    /\ before' = IF \A o \in Slots : ~InFlight(o) THEN Snapshot(s) ELSE NoSnapshot
    /\ UNCHANGED <<tz, data, filteredData, sortColumn, sortDirection, inputs,
                   errorText, stats>>

\* the click handler of #refreshBtn
Refresh ==
    /\ \E s \in Slots : LoadDataCall(s)
    /\ UNCHANGED <<apiUrl, configModal>>

\* saveConfiguration with a non-empty #apiUrlInput
SaveConfiguration ==
    /\ configModal
    /\ apiUrl' = "url"
    /\ configModal' = FALSE
    /\ \E s \in Slots : LoadDataCall(s)

\* saveConfiguration with an empty #apiUrlInput: an alert, nothing else
SaveEmptyConfiguration ==
    /\ configModal
    /\ UNCHANGED vars

\* the catch block of loadData
Catch(s, kind) ==
    /\ requests' = [requests EXCEPT ![s] = [pos |-> "caught", body |-> NoBody]]
    /\ display' = [display EXCEPT !.spinner = "none", !.error = "block"]
    /\ errorText' = kind

\* fetch rejects: a network failure
FetchReject(s) ==
    /\ requests[s].pos = "awaitFetch"
    /\ Catch(s, "Failed to fetch")
    /\ UNCHANGED <<tz, apiUrl, configModal, data, filteredData, sortColumn,
                   sortDirection, inputs, stats, before>>

\* fetch resolves with a response that is not ok: loadData throws
FetchNotOk(s) ==
    /\ requests[s].pos = "awaitFetch"
    /\ Catch(s, "HTTP error")
    /\ UNCHANGED <<tz, apiUrl, configModal, data, filteredData, sortColumn,
                   sortDirection, inputs, stats, before>>

\* fetch resolves with an ok response, whose body is body (with no URL
\* configured, fetch('') gets the page itself, which is not JSON)
FetchOk(s, body) ==
    /\ requests[s].pos = "awaitFetch"
    /\ apiUrl = "" => body = InvalidJson
    /\ requests' = [requests EXCEPT ![s] = [pos |-> "awaitJson", body |-> body]]
    /\ UNCHANGED <<tz, apiUrl, configModal, data, filteredData, sortColumn,
                   sortDirection, inputs, display, errorText, stats, before>>

ViewState == [threw |-> FALSE, filteredData |-> filteredData,
              table |-> display.table, empty |-> display.empty, stats |-> stats]

\* a variant of FinishLoad that adds the response's records to those this.data
\* held, to show what the property of overlapping loads rules out
FinishLoadMerging(s, value, view) ==
    /\ data' = [value EXCEPT !.items = data.items \o value.items]
    /\ filteredData' = view.filteredData
    /\ stats' = view.stats
    /\ requests' = [requests EXCEPT ![s] = [pos |-> IF view.threw THEN "caught" ELSE "returned",
                                            body |-> NoBody]]
    /\ display' = [display EXCEPT !.spinner = "none"]
    /\ before' = NoSnapshot
    /\ UNCHANGED errorText

\* loadData from applyFilters to its end, this.data being value and view what
\* applyFilters left
FinishLoad(s, value, view) ==
    /\ data' = value
    /\ filteredData' = view.filteredData
    /\ stats' = view.stats
    /\ IF view.threw
       THEN /\ requests' = [requests EXCEPT ![s] = [pos |-> "caught", body |-> NoBody]]
            /\ display' = [spinner |-> "none", error |-> "block",
                           table |-> view.table, empty |-> view.empty]
            /\ errorText' = "TypeError"
            /\ UNCHANGED before
       ELSE /\ requests' = [requests EXCEPT ![s] = [pos |-> "returned", body |-> NoBody]]
            /\ display' = [display EXCEPT
                             !.spinner = "none",
                             !.table = IF Len(view.filteredData.items) > 0
                                       THEN "block" ELSE view.table,
                             !.empty = IF Len(view.filteredData.items) > 0
                                       THEN view.empty ELSE "block"]
            /\ before' = NoSnapshot
            /\ UNCHANGED errorText

\* loadData from processData on, processData having given processed
ProcessLoad(s, processed) ==
    IF processed.threw
    THEN /\ Catch(s, "TypeError")
         /\ data' = processed.value
         /\ UNCHANGED <<filteredData, stats, before>>
    ELSE FinishLoad(s, processed.value,
                    applyFilters(processed.value, inputs, ViewState, tz))

\* loadData from the assignment of this.data on, for the decoded body result
InstallLoad(s, result, installed) ==
    IF result.t = "invalid"
    THEN /\ Catch(s, "SyntaxError")
         /\ UNCHANGED <<data, filteredData, stats, before>>
    ELSE IF installed.threw
    THEN /\ Catch(s, "TypeError")
         /\ UNCHANGED <<data, filteredData, stats, before>>
    ELSE ProcessLoad(s, processData(installed.value, tz))

\* response.json() settles and loadData runs to its end without another await
JsonSettle(s) ==
    /\ requests[s].pos = "awaitJson"
    /\ InstallLoad(s, requests[s].body, Ingest(requests[s].body))
    /\ UNCHANGED <<tz, apiUrl, configModal, sortColumn, sortDirection, inputs>>

(***************************************************************************)
(* Filter and sort handlers                                                *)
(***************************************************************************)
\* what applyFilters leaves in the fields and on the page
Commit(view) ==
    /\ filteredData' = view.filteredData
    /\ display' = [display EXCEPT !.table = view.table, !.empty = view.empty]
    /\ stats' = view.stats

\* applyFilters as an event handler: an exception leaves what it had not yet
\* written as it was
RunApplyFilters(in) == Commit(applyFilters(data, in, ViewState, tz))

\* the change / input handler of the filter input id, whose value is now value
ChangeFilter(id, value) ==
    /\ inputs[id] # value
    /\ inputs' = [inputs EXCEPT ![id] = value]
    /\ RunApplyFilters([inputs EXCEPT ![id] = value])
    /\ before' = NoSnapshot
    /\ UNCHANGED <<tz, apiUrl, configModal, data, sortColumn, sortDirection,
                   errorText, requests>>

\* SLAMonitoringApp.clearFilters
clearFilters ==
    /\ inputs' = [id \in FilterIds |-> <<>>]
    /\ RunApplyFilters([id \in FilterIds |-> <<>>])
    /\ before' = NoSnapshot
    /\ UNCHANGED <<tz, apiUrl, configModal, data, sortColumn, sortDirection,
                   errorText, requests>>

\* the array after the sort applied the permutation p
Permuted(items, p) == [i \in 1..Len(items) |-> items[p[i]]]

\* the next direction: toggled on the same column, ascending on a new one
NextDirection(column) ==
    IF sortColumn = column
    THEN (IF sortDirection = "asc" THEN "desc" ELSE "asc")
    ELSE "asc"

\* sortTable on the record objects view of this.filteredData; renderTable
\* throws on objects that were never enriched, after the fields are written
SortView(view, column, direction, r) ==
    /\ sortColumn' = column
    /\ sortDirection' = direction
    /\ \E p \in SortOutcomes(view, column, direction) :
          filteredData' = [filteredData EXCEPT !.items = Permuted(filteredData.items, p)]
    /\ display' = [display EXCEPT !.table = r.table, !.empty = r.empty]

\* SLAMonitoringApp.sortTable
sortTable(column) ==
    /\ SortView(View, column, NextDirection(column), renderTable(View))
    /\ before' = NoSnapshot
    /\ UNCHANGED <<tz, apiUrl, configModal, data, inputs, errorText, stats, requests>>

(***************************************************************************)
(* The application                                                         *)
(***************************************************************************)
\* the response bodies of the application's runs
Bodies ==
    {JsonArray(<<Ref("Acme"), Ref("Old")>>),
     JsonObject(DataArray(<<Ref("NoDate"), Ref("Late")>>)),
     JsonArray(<<Ref("NumDate")>>),
     JsonObject(NoData),
     InvalidJson}

\* the values the user gives the filter inputs in the application's runs
FilterChoices ==
    {<<"supplierSearch", <<"A">>>>, <<"supplierSearch", <<>>>>}

\* the headers the user clicks in the application's runs
SortChoices == {"sla"}

Next ==
    \/ Refresh
    \/ SaveConfiguration
    \/ SaveEmptyConfiguration
    \/ \E s \in Slots : FetchReject(s)
    \/ \E s \in Slots : FetchNotOk(s)
    \/ \E s \in Slots, body \in Bodies : FetchOk(s, body)
    \/ \E s \in Slots : JsonSettle(s)
    \/ \E c \in FilterChoices : ChangeFilter(c[1], c[2])
    \/ clearFilters
    \/ \E column \in SortChoices : sortTable(column)

Spec == Init /\ [][Next]_vars

(***************************************************************************)
(* Enrichment of one record: the response has been fetched and             *)
(* response.json() is about to settle with an array of one record          *)
(***************************************************************************)
\* loadData awaiting response.json(), whose body is body
AwaitingJson(body) ==
    /\ tz \in TzOffsets
    /\ InitLoading
    /\ requests = [s \in Slots |->
                     IF s = 1 THEN [pos |-> "awaitJson", body |-> body] ELSE Idle]

InitEnrich == \E ref \in WideRefs : AwaitingJson(JsonArray(<<ref>>))

NextEnrich == \E s \in Slots : JsonSettle(s)

SpecEnrich == InitEnrich /\ [][NextEnrich]_vars

(***************************************************************************)
(* Sorting a loaded view                                                   *)
(***************************************************************************)
\* the longest response of the sorting runs
MaxView == 3

\* the records of the sorting runs
SortRefs == {Ref("Acme"), Ref("Old"), Ref("NoDate"), Ref("Letters"), Ref("Blank")}

\* arrays of two to MaxView distinct records
SortBodies ==
    {JsonArray(items) : items \in
        {q \in UNION {[1..n -> SortRefs] : n \in 2..MaxView} :
            \A i, j \in DOMAIN q : i # j => q[i] # q[j]}}

\* the headers clicked in the sorting runs
SortColumns == {"poDate", "receivedDate", "sla", "supplierName"}

InitSort == \E body \in SortBodies : AwaitingJson(body)

NextSort ==
    \/ \E s \in Slots : JsonSettle(s)
    \/ \E column \in SortColumns : sortTable(column)

SpecSort == InitSort /\ [][NextSort]_vars

(***************************************************************************)
(* Filtering a loaded view                                                 *)
(***************************************************************************)
V_Iso_2024_01_03 == <<"2", "0", "2", "4", "-", "0", "1", "-", "0", "3">>
V_Iso_2030_01_01 == <<"2", "0", "3", "0", "-", "0", "1", "-", "0", "1">>

\* the responses of the filtering runs
FilterBodies ==
    {JsonArray(<<Ref("NoDate"), Ref("Acme"), Ref("Late")>>),
     JsonArray(<<Ref("Old"), Ref("NoDate")>>),
     JsonArray(<<Ref("Acme"), Ref("NoSupplier")>>),
     JsonArray(<<Ref("Blank"), Ref("Late")>>)}

\* the values given to each filter input in the filtering runs
FilterValues ==
    [id \in FilterIds |->
        CASE id = "poDateFrom" -> {<<>>, V_Iso_2024_01_03, V_Iso_2030_01_01}
          [] id \in {"poDateTo", "rcvDateFrom", "rcvDateTo"} -> {<<>>, V_Iso_2024_01_03}
          [] id = "supplierSearch" -> {<<>>, <<"a">>}
          [] id = "contractSearch" -> {<<>>, <<"C">>}
          [] OTHER -> {<<>>, <<"3">>}]

InitFilter == \E body \in FilterBodies : AwaitingJson(body)

NextFilter ==
    \/ \E s \in Slots : JsonSettle(s)
    \/ \E id \in FilterIds : \E value \in FilterValues[id] : ChangeFilter(id, value)
    \/ clearFilters

SpecFilter == InitFilter /\ [][NextFilter]_vars

(***************************************************************************)
(* Properties                                                              *)
(***************************************************************************)
Range(seq) == {seq[i] : i \in 1..Len(seq)}
Reverse(seq) == [i \in 1..Len(seq) |-> seq[Len(seq) + 1 - i]]

\* the record objects of this.data
DataObjects == Objects(data.items, data.enriched, tz)

\* no two elements of the view compare equal on the column
NoTies(view, column) ==
    \A i, j \in 1..Len(view) :
        i # j => Compare(view[i], view[j], column, "asc") # 0

\* the view is in strict order for the comparator of the column and direction
SortedBy(view, column, direction) ==
    \A i, j \in 1..Len(view) :
        i < j => Compare(view[i], view[j], column, direction) < 0

\* the view is in order (ties allowed) for the column and direction
OrderedBy(view, column, direction) ==
    \A i, j \in 1..Len(view) :
        i < j => Compare(view[i], view[j], column, direction) <= 0

\* the filter callback accepts or rejects every object without throwing
FilterDecides(objs, in) ==
    \A i \in 1..Len(objs) : FilterVerdict(objs[i], in) # "throw"

\* the references of this.data the filter callback keeps
KeptOf(d, objs, in) ==
    Kept(d.items, [i \in 1..Len(objs) |-> FilterVerdict(objs[i], in)], 1)

\* the records a decoded response stands for: the array itself, the data array
\* of an object, none for any other shape
ExpectedRecords(body) ==
    IF body.t = "array" THEN body.items
    ELSE IF body.t = "object" /\ body.d.t = "array" THEN body.d.items
    ELSE <<>>

\* C1: after any operations the view is this.data filtered by the current
\* inputs and then ordered by the current sort column and direction.
C1_ViewIsFilterThenSort ==
    (data.t = "array" /\ data.enriched /\ filteredData.enriched
        /\ FilterDecides(DataObjects, inputs))
    => /\ Range(filteredData.items) = Range(KeptOf(data, DataObjects, inputs))
       /\ sortColumn # "null" => OrderedBy(View, sortColumn, sortDirection)

\* C2: when loadData fails an error message is shown and data, filteredData,
\* the sort state and the visibility of the table and of the empty state are
\* as they were before the call (a call made once a view had been rendered).
C2_FailedLoadKeepsView ==
    \A s \in Slots :
        (requests[s].pos = "caught" /\ before.slot = s /\ before.table # "")
        => /\ display.error = "block"
           /\ errorText # ""
           /\ data = before.data
           /\ filteredData = before.filteredData
           /\ sortColumn = before.sortColumn
           /\ sortDirection = before.sortDirection
           /\ display.table = before.table
           /\ display.empty = before.empty

\* the decoded response is an array, or an object whose data is an array
HoldsRecords(body) ==
    body.t = "array" \/ (body.t = "object" /\ body.d.t = "array")

\* C3: ingestion takes an array payload as it is and the data array of an
\* object payload; a payload of any other shape gives the empty record set
\* and loadData completes without taking its error path.
C3_IngestionNeverFails ==
    [][\A s \in Slots :
          (requests[s].pos = "awaitJson" /\ requests[s].body.t # "invalid"
              /\ requests'[s].pos # "awaitJson")
          => /\ data'.t = "array"
             /\ data'.items = ExpectedRecords(requests[s].body)
             /\ ~HoldsRecords(requests[s].body) => requests'[s].pos = "returned"]_vars

\* the parsed dates of an enriched record are null or valid, and its avgDays
\* is an integer that is 0 unless both dates parsed
DatesWellFormed(o) ==
    /\ o.poDateObj.t \in {"null", "date"}
    /\ o.receivedDateObj.t \in {"null", "date"}
    /\ o.avgDays.t = "number"
    /\ o.avgDays.n # 0 => (o.poDateObj.t = "date" /\ o.receivedDateObj.t = "date")

\* C4: parseDate never raises and never returns an invalid date, so avgDays
\* is always an integer and is 0 unless both dates parse.
C4_ParseDateTotal ==
    /\ \A s \in Slots : requests[s].pos # "caught"
    /\ data.enriched => \A i \in 1..Len(data.items) : DatesWellFormed(DataObjects[i])

\* C5: processData completes without an exception for every record, and sla
\* is 0 whenever the coerced poValue is at most 0.
C5_EnrichTotal ==
    /\ \A s \in Slots : requests[s].pos # "caught"
    /\ data.enriched =>
          \A i \in 1..Len(data.items) :
              ParseFloatOrZero(Catalogue(data.items[i]).poValue) <= 0
              => DataObjects[i].sla = Num(0)

\* the parsed date of the object that a date column sorts by
DateObjOf(o, column) == IF column = "poDate" THEN o.poDateObj ELSE o.receivedDateObj

\* C6: a sort by a date column puts every record whose date did not parse
\* before every record with a parsed date when ascending, after when
\* descending.
C6_UnparsedDatesFirst ==
    [][(requests' = requests /\ sortColumn' \in DateColumns)
       => \A i, j \in 1..Len(View') :
             (DateObjOf(View'[i], sortColumn').t = "null"
                 /\ DateObjOf(View'[j], sortColumn').t = "date")
             => IF sortDirection' = "asc" THEN i < j ELSE j < i]_vars

\* C7: sortTable on the column already sorted by flips the direction and, when
\* no two records tie, turns the order the previous call produced into its
\* exact reverse; sortTable on another column sorts ascending.
C7_SortToggle ==
    [][requests' = requests
       => /\ sortColumn' = sortColumn
             => /\ sortDirection' # sortDirection
                /\ (NoTies(View, sortColumn) /\ SortedBy(View, sortColumn, sortDirection))
                   => filteredData'.items = Reverse(filteredData.items)
          /\ sortColumn' # sortColumn
             => /\ sortDirection' = "asc"
                /\ NoTies(View, sortColumn') => SortedBy(View', sortColumn', "asc")]_vars

\* a view of at least two records that a second click on sla has put in
\* strictly descending order, different from the order of this.data
C7_Toggled ==
    /\ sortColumn = "sla"
    /\ sortDirection = "desc"
    /\ Len(filteredData.items) >= 2
    /\ filteredData.items # data.items
    /\ SortedBy(View, "sla", "desc")

\* the object passes the text filters and the date bounds on the received date
PassesButOrderDate(o, in) ==
    /\ ~OutsideBounds(o.receivedDateObj, in["rcvDateFrom"], in["rcvDateTo"])
    /\ TextVerdict(TextCheck(o.supplierName, ToLowerCase(in["supplierSearch"])),
                   TextCheck(o.contract, ToLowerCase(in["contractSearch"])),
                   TextCheck(o.itemCode, ToLowerCase(in["itemCodeSearch"]))) = "keep"

\* the object passes the text filters and the date bounds on the order date
PassesButReceivedDate(o, in) ==
    /\ ~OutsideBounds(o.poDateObj, in["poDateFrom"], in["poDateTo"])
    /\ TextVerdict(TextCheck(o.supplierName, ToLowerCase(in["supplierSearch"])),
                   TextCheck(o.contract, ToLowerCase(in["contractSearch"])),
                   TextCheck(o.itemCode, ToLowerCase(in["itemCodeSearch"]))) = "keep"

\* C8: a record whose order date did not parse is kept whatever poDateFrom and
\* poDateTo are, and one whose received date did not parse whatever
\* rcvDateFrom and rcvDateTo are, whenever it meets the other constraints.
C8_UnparsedDateNotExcluded ==
    (data.enriched /\ FilterDecides(DataObjects, inputs))
    => \A i \in 1..Len(data.items) :
          /\ (DataObjects[i].poDateObj.t = "null" /\ PassesButOrderDate(DataObjects[i], inputs))
             => data.items[i] \in Range(filteredData.items)
          /\ (DataObjects[i].receivedDateObj.t = "null"
                 /\ PassesButReceivedDate(DataObjects[i], inputs))
             => data.items[i] \in Range(filteredData.items)

\* a poDateFrom bound is set, the record dated 01/01/2024 has been filtered
\* out, and the record without an order date is in the view
C8_KeptUnderBound ==
    /\ inputs["poDateFrom"] # <<>>
    /\ Ref("NoDate") \in Range(filteredData.items)
    /\ Ref("Acme") \in Range(data.items)
    /\ Ref("Acme") \notin Range(filteredData.items)

\* avg is the mean sum / count rounded to the nearest integer
IsRoundedMean(avg, sum, count) ==
    /\ avg.t = "number"
    /\ 2 * (avg.n * count - sum) <= count
    /\ 2 * (sum - avg.n * count) <= count

\* the sum of a numeric field over the view
RECURSIVE Total(_, _)
Total(view, field) ==
    IF Len(view) = 0 THEN 0 ELSE view[1][field].n + Total(Tail(view), field)

\* C9: the statistics shown are those of the view: its length, the number of
\* its distinct nomorPO, the means of sla and of avgDays; all four are 0
\* when the view is empty.
C9_StatisticsOfView ==
    (stats # NoStats /\ (filteredData.enriched \/ Len(filteredData.items) = 0))
    => /\ stats.totalItems = Num(Len(View))
       /\ stats.totalPO = Num(Cardinality({View[i].nomorPO : i \in 1..Len(View)}))
       /\ IF Len(View) = 0
          THEN stats.avgSLA = Num(0) /\ stats.avgDays = Num(0)
          ELSE /\ IsRoundedMean(stats.avgSLA, Total(View, "sla"), Len(View))
               /\ IsRoundedMean(stats.avgDays, Total(View, "avgDays"), Len(View))

\* the statistics of a view of two records of the same order
C9_TwoRowsOneOrder ==
    /\ Len(filteredData.items) = 2
    /\ filteredData.enriched
    /\ stats.totalItems = Num(2)
    /\ stats.totalPO = Num(1)
    /\ stats.avgSLA.n > 0

\* C10: a successful response installs its records, enriches them and
\* recomputes the view in one step, whatever other loadData call is pending:
\* afterwards data and filteredData hold records of that response only.
C10_LastResponseWins ==
    [][\A s \in Slots :
          (requests[s].pos = "awaitJson" /\ requests'[s].pos = "returned")
          => /\ data'.t = "array"
             /\ data'.enriched
             /\ data'.items = ExpectedRecords(requests[s].body)
             /\ filteredData'.enriched
             /\ filteredData'.items = KeptOf(data', DataObjects', inputs)]_vars

\* two loadData calls overlapped (the second slot is taken only while the
\* first is in flight) and both ran to their end
C10_BothReturned ==
    /\ requests[1].pos = "returned"
    /\ requests[2].pos = "returned"
    /\ Len(data.items) > 0

====
